---- MODULE Spec2Model ----
(***************************************************************************)
(* glinf: option resolution, OpenGL version negotiation and report.        *)
(* Model of main() in glinf.cpp.  Strings are sequences of one-character   *)
(* strings; unsigned 32-bit values are kept as two 16-bit halves so that   *)
(* the unsigned -> int conversion of the version option keeps its width.   *)
(***************************************************************************)
EXTENDS Integers, Sequences, FiniteSets, TLC

(***************************************************************************)
(* Bounds of the model                                                     *)
(***************************************************************************)
MaxDriverMajor == 4
MaxExts == 2

(***************************************************************************)
(* Strings                                                                 *)
(***************************************************************************)
Half == 65536

DigitVal ==
  [c \in {"0", "1", "2", "3", "4", "5", "6", "7", "8", "9"} |->
     CASE c = "0" -> 0 [] c = "1" -> 1 [] c = "2" -> 2 [] c = "3" -> 3
       [] c = "4" -> 4 [] c = "5" -> 5 [] c = "6" -> 6 [] c = "7" -> 7
       [] c = "8" -> 8 [] c = "9" -> 9]

\* Qt::CaseInsensitive folding of one character
FoldCase(c) ==
  CASE c = "A" -> "a" [] c = "B" -> "b" [] c = "C" -> "c" [] c = "E" -> "e"
    [] c = "F" -> "f" [] c = "G" -> "g" [] c = "I" -> "i" [] c = "L" -> "l"
    [] c = "M" -> "m" [] c = "N" -> "n" [] c = "O" -> "o" [] c = "P" -> "p"
    [] c = "R" -> "r" [] c = "S" -> "s" [] c = "T" -> "t" [] c = "Y" -> "y"
    [] OTHER -> c

\* QString::compare(other, Qt::CaseInsensitive) == 0
CompareCI(s, t) ==
  /\ Len(s) = Len(t)
  /\ \A i \in 1..Len(s) : FoldCase(s[i]) = FoldCase(t[i])

\* QString::split('.') with the default Qt::KeepEmptyParts
RECURSIVE SplitFrom(_, _, _)
SplitFrom(s, i, cur) ==
  IF i > Len(s) THEN <<cur>>
  ELSE IF s[i] = "." THEN <<cur>> \o SplitFrom(s, i + 1, <<>>)
  ELSE SplitFrom(s, i + 1, Append(cur, s[i]))

Split(s) == SplitFrom(s, 1, <<>>)

\* accumulate decimal digits into an unsigned 32-bit value [hi, lo];
\* ok turns FALSE on a non-digit or when the value leaves 0..2^32-1
RECURSIVE ToUIntFrom(_, _, _, _)
ToUIntFrom(s, i, hi, lo) ==
  IF i > Len(s) THEN [ok |-> TRUE, hi |-> hi, lo |-> lo]
  ELSE IF s[i] \notin DOMAIN DigitVal THEN [ok |-> FALSE, hi |-> 0, lo |-> 0]
  ELSE LET l  == lo * 10 + DigitVal[s[i]]
           h  == hi * 10 + (l \div Half)
       IN  IF h >= Half THEN [ok |-> FALSE, hi |-> 0, lo |-> 0]
           ELSE ToUIntFrom(s, i + 1, h, l % Half)

\* QString::toUInt(&ok): the empty string is not a number
ToUInt(s) ==
  IF Len(s) = 0 THEN [ok |-> FALSE, hi |-> 0, lo |-> 0]
  ELSE ToUIntFrom(s, 1, 0, 0)

\* int = unsigned int: the value modulo 2^32 in two's complement
ToInt(u) ==
  IF u.hi >= Half \div 2 THEN (u.hi - Half) * Half + u.lo
  ELSE u.hi * Half + u.lo

(***************************************************************************)
(* Command line values the runs are drawn from                             *)
(***************************************************************************)
TypeValues ==
  { <<"o", "p", "e", "n", "g", "l">>,
    <<"O", "p", "e", "n", "G", "L", "E", "S">>,
    <<"f", "o", "o">> }

ProfileValues ==
  { <<"c", "o", "r", "e">>,
    <<"C", "O", "M", "P", "A", "T">>,
    <<"c", "o", "m", "p", "a", "t", "i", "b", "i", "l", "i", "t", "y">>,
    <<"b", "a", "r">> }

VersionValues ==
  { <<"4", ".", "6">>,
    <<"3", ".", "0">>,
    <<"4">>,
    <<"4", ".">>,
    <<"4", ".", "x">>,
    <<"4", ".", "5", ".", "6">>,
    <<"2", "1", "4", "7", "4", "8", "3", "6", "4", "7", ".", "1">>,
    <<"4", "2", "9", "4", "9", "6", "7", "2", "9", "5", ".", "0">>,
    <<"3", ".", "2", "1", "4", "7", "4", "8", "3", "6", "4", "8">>,
    <<"4", "2", "9", "4", "9", "6", "7", "2", "9", "6", ".", "0">> }

Args ==
  [ typeSet : BOOLEAN, type : TypeValues \cup {<<>>},
    profileSet : BOOLEAN, profile : ProfileValues \cup {<<>>},
    versionSet : BOOLEAN, version : VersionValues \cup {<<>>},
    extensions : BOOLEAN ]

\* an option that is not given has no value
ArgsOk(a) ==
  /\ (~a.typeSet => a.type = <<>>)
  /\ (~a.profileSet => a.profile = <<>>)
  /\ (~a.versionSet => a.version = <<>>)

(***************************************************************************)
(* What the driver may answer                                              *)
(***************************************************************************)
DriverMinors == {0, 1, 2, 6}

ContextKinds ==
  { [isES |-> TRUE,  profile |-> "NoProfile"],
    [isES |-> FALSE, profile |-> "NoProfile"],
    [isES |-> FALSE, profile |-> "CoreProfile"],
    [isES |-> FALSE, profile |-> "CompatibilityProfile"] }

NotCreated ==
  [created |-> FALSE, major |-> 0, minor |-> 0, isES |-> FALSE, profile |-> "NoProfile"]

DriverAnswers ==
  {NotCreated} \cup
  { [created |-> TRUE, major |-> M, minor |-> m, isES |-> k.isES, profile |-> k.profile] :
      M \in 3..MaxDriverMajor, m \in DriverMinors, k \in ContextKinds }

\* extension names as byte strings, the empty name among them
ExtNames == { <<>>, <<65>>, <<65, 65>>, <<65, 97>>, <<97>> }

ExtSets == { S \in SUBSET ExtNames : Cardinality(S) <= MaxExts }

\* the orders in which a QSet may be iterated
Orders(S) ==
  { f \in [1..Cardinality(S) -> S] : \A i, j \in 1..Cardinality(S) : f[i] = f[j] => i = j }

(***************************************************************************)
(* Option resolution (glinf.cpp, main, lines 60-101)                       *)
(***************************************************************************)
ResolveType(a) ==
  IF ~a.typeSet THEN [ok |-> TRUE, type |-> "DefaultRenderableType"]
  ELSE IF CompareCI(a.type, <<"o", "p", "e", "n", "g", "l">>)
       THEN [ok |-> TRUE, type |-> "OpenGL"]
  ELSE IF CompareCI(a.type, <<"o", "p", "e", "n", "g", "l", "e", "s">>)
       THEN [ok |-> TRUE, type |-> "OpenGLES"]
  ELSE [ok |-> FALSE, type |-> "DefaultRenderableType"]

ResolveProfile(a) ==
  IF ~a.profileSet THEN [ok |-> TRUE, profile |-> "CoreProfile"]
  ELSE IF CompareCI(a.profile, <<"c", "o", "r", "e">>)
       THEN [ok |-> TRUE, profile |-> "CoreProfile"]
  ELSE IF \/ CompareCI(a.profile, <<"c", "o", "m", "p", "a", "t">>)
          \/ CompareCI(a.profile,
                <<"c", "o", "m", "p", "a", "t", "i", "b", "i", "l", "i", "t", "y">>)
       THEN [ok |-> TRUE, profile |-> "CompatibilityProfile"]
  ELSE [ok |-> FALSE, profile |-> "CoreProfile"]

\* the version option resolved without testing minorOk
ResolveVersionMinorUnchecked(a) ==
  IF ~a.versionSet
  THEN [ok |-> TRUE, majorMax |-> 4, minorMax |-> 9, majorMin |-> 3, minorMin |-> 2]
  ELSE LET majorminor == Split(a.version)
       IN  IF Len(majorminor) # 2 \/ ~ToUInt(majorminor[1]).ok
           THEN [ok |-> FALSE, majorMax |-> 4, minorMax |-> 9, majorMin |-> 3, minorMin |-> 2]
           ELSE LET major == ToUInt(majorminor[1])
                    minor == ToUInt(majorminor[2])
                IN  [ok |-> TRUE,
                     majorMax |-> ToInt(major), minorMax |-> ToInt(minor),
                     majorMin |-> ToInt(major), minorMin |-> ToInt(minor)]

\* the range tryMajorMax.tryMinorMax down to tryMajorMin.tryMinorMin
ResolveVersion(a) ==
  IF ~a.versionSet
  THEN [ok |-> TRUE, majorMax |-> 4, minorMax |-> 9, majorMin |-> 3, minorMin |-> 2]
  ELSE LET majorminor == Split(a.version)
       IN  IF Len(majorminor) # 2
              \/ ~ToUInt(majorminor[1]).ok \/ ~ToUInt(majorminor[2]).ok
           THEN [ok |-> FALSE, majorMax |-> 4, minorMax |-> 9, majorMin |-> 3, minorMin |-> 2]
           ELSE LET major == ToUInt(majorminor[1])
                    minor == ToUInt(majorminor[2])
                IN  [ok |-> TRUE,
                     majorMax |-> ToInt(major), minorMax |-> ToInt(minor),
                     majorMin |-> ToInt(major), minorMin |-> ToInt(minor)]

\* the diagnostic of the first option that does not resolve, "" if all do
OptionError(a) ==
  IF ~ResolveType(a).ok THEN "invalid type"
  ELSE IF ~ResolveProfile(a).ok THEN "invalid profile"
  ELSE IF ~ResolveVersion(a).ok THEN "invalid version"
  ELSE ""

(***************************************************************************)
(* Negotiation (lines 104-142)                                             *)
(***************************************************************************)
\* the acceptance test comparing the major version only
AcceptedMajorOnly(c, major, minor) ==
  /\ c.created
  /\ ~(c.major < major)

\* lines 116-122: ok after the acceptance test
Accepted(c, major, minor) ==
  /\ c.created
  /\ ~(c.major < major \/ (c.major = major /\ c.minor < minor))

\* the step down without the rollover of the minor version to 9
NextTrialNoRollover(major, minor, majorMin, minorMin) ==
  IF major > majorMin /\ minor = 0
  THEN [tryAgain |-> TRUE, major |-> major - 1, minor |-> 0]
  ELSE IF major > majorMin \/ minor > minorMin
  THEN [tryAgain |-> TRUE, major |-> major, minor |-> minor - 1]
  ELSE [tryAgain |-> FALSE, major |-> major, minor |-> minor]

\* the step down that tests the minor version against 0 instead of the floor
NextTrialBelowFloor(major, minor, majorMin, minorMin) ==
  IF major > majorMin /\ minor = 0
  THEN [tryAgain |-> TRUE, major |-> major - 1, minor |-> 9]
  ELSE IF major > majorMin \/ minor > 0
  THEN [tryAgain |-> TRUE, major |-> major, minor |-> minor - 1]
  ELSE [tryAgain |-> FALSE, major |-> major, minor |-> minor]

\* lines 124-132: the next trial version and whether there is one
NextTrial(major, minor, majorMin, minorMin) ==
  IF major > majorMin /\ minor = 0
  THEN [tryAgain |-> TRUE, major |-> major - 1, minor |-> 9]
  ELSE IF major > majorMin \/ minor > minorMin
  THEN [tryAgain |-> TRUE, major |-> major, minor |-> minor - 1]
  ELSE [tryAgain |-> FALSE, major |-> major, minor |-> minor]

\* a retry that deletes nothing
ReleaseNothing(h, ctx, surf) == h

\* lines 134-137: delete context; delete surface
Release(h, ctx, surf) ==
  [surfaces |-> h.surfaces \ {surf},
   contexts |-> { c \in h.contexts : c.id # ctx }]

(***************************************************************************)
(* Report (lines 154-224)                                                  *)
(***************************************************************************)
\* the suffix decided without looking at isOpenGLES()
ProfileSuffixAnyApi(c) ==
  IF c.major > 3 \/ (c.major = 3 /\ c.minor >= 2)
  THEN IF c.profile = "CompatibilityProfile" THEN "compatibility profile"
       ELSE "core profile"
  ELSE ""

\* lines 158-164
ProfileSuffix(c) ==
  IF ~c.isES /\ (c.major > 3 \/ (c.major = 3 /\ c.minor >= 2))
  THEN IF c.profile = "CompatibilityProfile" THEN "compatibility profile"
       ELSE "core profile"
  ELSE ""

\* lines 154-165
ContextLine(c) ==
  [kind |-> "Context", api |-> IF c.isES THEN "OpenGLES" ELSE "OpenGL",
   major |-> c.major, minor |-> c.minor, suffix |-> ProfileSuffix(c)]

\* lines 166-169
StringLines ==
  << [kind |-> "Version"], [kind |-> "SL Version"],
     [kind |-> "Vendor"], [kind |-> "Renderer"] >>

\* QByteArray operator<: bytewise, a proper prefix is smaller
RECURSIVE BytesLessFrom(_, _, _)
BytesLessFrom(x, y, i) ==
  IF i > Len(x) THEN i <= Len(y)
  ELSE IF i > Len(y) THEN FALSE
  ELSE IF x[i] # y[i] THEN x[i] < y[i]
  ELSE BytesLessFrom(x, y, i + 1)

BytesLess(x, y) == BytesLessFrom(x, y, 1)

RECURSIVE InsertSorted(_, _)
InsertSorted(sorted, e) ==
  IF sorted = <<>> THEN <<e>>
  ELSE IF BytesLess(e, Head(sorted)) THEN <<e>> \o sorted
  ELSE <<Head(sorted)>> \o InsertSorted(Tail(sorted), e)

\* a list left in iteration order
SortSkipped(l) == l

\* std::sort(begin, end)
RECURSIVE Sort(_)
Sort(l) ==
  IF l = <<>> THEN <<>>
  ELSE InsertSorted(Sort(Tail(l)), Head(l))

\* lines 175-177: keep the entries of non-zero size
NonEmpty(ext) == Len(ext) > 0

\* lines 173-178, for the set iterated in the given order
SortedExtensions(order) == Sort(SelectSeq(order, NonEmpty))

\* lines 179-181
ExtensionLines(sorted) ==
  << [kind |-> "Extensions:"] >> \o
  [i \in 1..Len(sorted) |-> [kind |-> "extension", name |-> sorted[i]]]

Heading(t) == [kind |-> "heading", text |-> t]

Limit(q, f) == [kind |-> "limit", query |-> q, factor |-> f]

\* lines 185-224
LimitLines ==
  << Heading("Resource limitations:"),
     Heading("Texture limits:"),
     Limit("GL_MAX_TEXTURE_SIZE", 1),
     Limit("GL_MAX_3D_TEXTURE_SIZE", 1),
     Limit("GL_MAX_CUBE_MAP_TEXTURE_SIZE", 1),
     Limit("GL_MAX_ARRAY_TEXTURE_LAYERS", 1),
     Heading("Framebuffer object limits:"),
     Limit("GL_MAX_FRAMEBUFFER_WIDTH", 1),
     Limit("GL_MAX_FRAMEBUFFER_HEIGHT", 1),
     Limit("GL_MAX_COLOR_ATTACHMENTS", 1),
     Limit("GL_MAX_DRAW_BUFFERS", 1),
     Heading("Maximum number of uniform components in shader stage:"),
     Limit("GL_MAX_VERTEX_UNIFORM_COMPONENTS", 1),
     Limit("GL_MAX_TESS_CONTROL_UNIFORM_COMPONENTS", 1),
     Limit("GL_MAX_TESS_EVALUATION_UNIFORM_COMPONENTS", 1),
     Limit("GL_MAX_GEOMETRY_UNIFORM_COMPONENTS", 1),
     Limit("GL_MAX_FRAGMENT_UNIFORM_COMPONENTS", 1),
     Limit("GL_MAX_COMPUTE_UNIFORM_COMPONENTS", 1),
     Heading("Maximum number of input components in shader stage:"),
     Limit("GL_MAX_VERTEX_ATTRIBS", 4),
     Limit("GL_MAX_TESS_CONTROL_INPUT_COMPONENTS", 1),
     Limit("GL_MAX_TESS_EVALUATION_INPUT_COMPONENTS", 1),
     Limit("GL_MAX_GEOMETRY_INPUT_COMPONENTS", 1),
     Limit("GL_MAX_FRAGMENT_INPUT_COMPONENTS", 1),
     Heading("Maximum number of output components in shader stage:"),
     Limit("GL_MAX_VERTEX_OUTPUT_COMPONENTS", 1),
     Limit("GL_MAX_TESS_CONTROL_OUTPUT_COMPONENTS", 1),
     Limit("GL_MAX_TESS_EVALUATION_OUTPUT_COMPONENTS", 1),
     Limit("GL_MAX_GEOMETRY_OUTPUT_COMPONENTS", 1),
     Limit("GL_MAX_DRAW_BUFFERS", 4),
     Heading("Maximum number of samplers in shader stage:"),
     Limit("GL_MAX_VERTEX_TEXTURE_IMAGE_UNITS", 1),
     Limit("GL_MAX_TESS_CONTROL_TEXTURE_IMAGE_UNITS", 1),
     Limit("GL_MAX_TESS_EVALUATION_TEXTURE_IMAGE_UNITS", 1),
     Limit("GL_MAX_GEOMETRY_TEXTURE_IMAGE_UNITS", 1),
     Limit("GL_MAX_TEXTURE_IMAGE_UNITS", 1),
     Limit("GL_MAX_COMPUTE_TEXTURE_IMAGE_UNITS", 1),
     Limit("GL_MAX_COMBINED_TEXTURE_IMAGE_UNITS", 1) >>

(***************************************************************************)
(* The program: main()                                                     *)
(***************************************************************************)
VARIABLES
  args,         \* the parsed command line (parser.isSet / parser.value)
  pc,           \* position in main
  format,       \* QSurfaceFormat format
  tryMajorMax, tryMinorMax, tryMajorMin, tryMinorMin,
  tryMajor, tryMinor,
  ok,
  surface,      \* QOffscreenSurface* (0 is nullptr)
  context,      \* QOpenGLContext* (0 is nullptr)
  heap,         \* the objects allocated with new and not deleted
  allocs,       \* number of objects allocated so far
  current,      \* the context that was made current (0: none)
  extensions,   \* QSet<QByteArray> extensions (line 173)
  trials,       \* the versions passed to format.setVersion, in order
  stdout, stderr,
  exitCode      \* -1 while main has not returned

vars ==
  << args, pc, format, tryMajorMax, tryMinorMax, tryMajorMin, tryMinorMin,
     tryMajor, tryMinor, ok, surface, context, heap, allocs, current,
     extensions, trials, stdout, stderr, exitCode >>

\* the object a QOpenGLContext* points to
Ctx(h, id) == CHOOSE c \in h.contexts : c.id = id

Init ==
  /\ args \in {a \in Args : ArgsOk(a)}
  /\ pc = "options"
  /\ format = [type |-> "DefaultRenderableType", profile |-> "NoProfile",
               major |-> 2, minor |-> 0]
  /\ tryMajorMax = 0 /\ tryMinorMax = 0 /\ tryMajorMin = 0 /\ tryMinorMin = 0
  /\ tryMajor = 0 /\ tryMinor = 0
  /\ ok = FALSE
  /\ surface = 0 /\ context = 0
  /\ heap = [surfaces |-> {}, contexts |-> {}]
  /\ allocs = 0
  /\ current = 0
  /\ extensions = {}
  /\ trials = <<>>
  /\ stdout = <<>> /\ stderr = <<>>
  /\ exitCode = -1

\* lines 60-108: resolve the options, or print a diagnostic and return 1
ParseOptions ==
  /\ pc = "options"
  /\ LET e == OptionError(args)
         t == ResolveType(args)
         p == ResolveProfile(args)
         v == ResolveVersion(args)
     IN  IF e # ""
         THEN /\ stderr' = Append(stderr, e)
              /\ exitCode' = 1
              /\ pc' = "done"
              /\ format' = IF ~t.ok THEN format
                            ELSE [format EXCEPT !.type = t.type, !.profile = p.profile]
              /\ UNCHANGED << tryMajorMax, tryMinorMax, tryMajorMin, tryMinorMin,
                              tryMajor, tryMinor >>
         ELSE /\ format' = [format EXCEPT !.type = t.type, !.profile = p.profile]
              /\ tryMajorMax' = v.majorMax /\ tryMinorMax' = v.minorMax
              /\ tryMajorMin' = v.majorMin /\ tryMinorMin' = v.minorMin
              /\ tryMajor' = v.majorMax /\ tryMinor' = v.minorMax
              /\ pc' = "loop"
              /\ UNCHANGED << stderr, exitCode >>
  /\ UNCHANGED << args, ok, surface, context, heap, allocs, current, extensions,
                  trials, stdout >>

\* lines 110-115: one trial, the driver answering a
Allocate(a) ==
  /\ pc = "loop"
  /\ format' = [format EXCEPT !.major = tryMajor, !.minor = tryMinor]
  /\ trials' = Append(trials, <<tryMajor, tryMinor>>)
  /\ surface' = allocs + 1
  /\ context' = allocs + 2
  /\ allocs' = allocs + 2
  /\ heap' = [surfaces |-> heap.surfaces \cup {allocs + 1},
              contexts |-> heap.contexts \cup
                 { [id |-> allocs + 2, trial |-> Len(trials) + 1, created |-> a.created,
                    major |-> a.major, minor |-> a.minor,
                    isES |-> a.isES, profile |-> a.profile] }]
  /\ ok' = a.created
  /\ pc' = "judge"
  /\ UNCHANGED << args, tryMajorMax, tryMinorMax, tryMajorMin, tryMinorMin,
                  tryMajor, tryMinor, current, extensions, stdout, stderr, exitCode >>

\* lines 116-142: accept the context, or step down and retry, or give up
Judge ==
  /\ pc = "judge"
  /\ LET acc == Accepted(Ctx(heap, context), tryMajor, tryMinor)
         n   == NextTrial(tryMajor, tryMinor, tryMajorMin, tryMinorMin)
     IN  /\ ok' = acc
         /\ IF ~acc
            THEN /\ tryMajor' = n.major
                 /\ tryMinor' = n.minor
                 /\ IF n.tryAgain
                    THEN /\ heap' = Release(heap, context, surface)
                         /\ context' = 0
                         /\ surface' = 0
                         /\ pc' = "loop"
                    ELSE /\ pc' = "negotiated"
                         /\ UNCHANGED << heap, context, surface >>
            ELSE /\ pc' = "negotiated"
                 /\ UNCHANGED << tryMajor, tryMinor, heap, context, surface >>
  /\ UNCHANGED << args, format, tryMajorMax, tryMinorMax, tryMajorMin, tryMinorMin,
                  allocs, current, extensions, trials, stdout, stderr, exitCode >>

\* the post-negotiation checks with the return after the makeCurrent
\* diagnostic left out
PostNegotiationNoReturn(mc) ==
  /\ pc = "negotiated"
  /\ IF ~ok
     THEN /\ stderr' = Append(stderr, "cannot create context")
          /\ exitCode' = 1
          /\ pc' = "done"
          /\ UNCHANGED current
     ELSE /\ stderr' = IF ~mc THEN Append(stderr, "cannot make context current")
                       ELSE stderr
          /\ current' = IF mc THEN context ELSE current
          /\ pc' = "general"
          /\ UNCHANGED exitCode
  /\ UNCHANGED << args, format, tryMajorMax, tryMinorMax, tryMajorMin, tryMinorMin,
                  tryMajor, tryMinor, ok, surface, context, heap, allocs, extensions,
                  trials, stdout >>

\* lines 143-151: mc is the result of context->makeCurrent(surface)
PostNegotiation(mc) ==
  /\ pc = "negotiated"
  /\ IF ~ok
     THEN /\ stderr' = Append(stderr, "cannot create context")
          /\ exitCode' = 1
          /\ pc' = "done"
          /\ UNCHANGED current
     ELSE IF ~mc
     THEN /\ stderr' = Append(stderr, "cannot make context current")
          /\ exitCode' = 1
          /\ pc' = "done"
          /\ UNCHANGED current
     ELSE /\ current' = context
          /\ pc' = "general"
          /\ UNCHANGED << stderr, exitCode >>
  /\ UNCHANGED << args, format, tryMajorMax, tryMinorMax, tryMajorMin, tryMinorMin,
                  tryMajor, tryMinor, ok, surface, context, heap, allocs, extensions,
                  trials, stdout >>

\* lines 154-169
PrintGeneral ==
  /\ pc = "general"
  /\ stdout' = stdout \o << ContextLine(Ctx(heap, context)) >> \o StringLines
  /\ pc' = "extensions"
  /\ UNCHANGED << args, format, tryMajorMax, tryMinorMax, tryMajorMin, tryMinorMin,
                  tryMajor, tryMinor, ok, surface, context, heap, allocs, current,
                  extensions, trials, stderr, exitCode >>

\* lines 172-182: the context reports the set exts, iterated in some order
PrintExtensions(exts) ==
  /\ pc = "extensions"
  /\ IF args.extensions
     THEN /\ extensions' = exts
          /\ \E order \in Orders(exts) :
               stdout' = stdout \o ExtensionLines(SortedExtensions(order))
     ELSE UNCHANGED << extensions, stdout >>
  /\ pc' = "limits"
  /\ UNCHANGED << args, format, tryMajorMax, tryMinorMax, tryMajorMin, tryMinorMin,
                  tryMajor, tryMinor, ok, surface, context, heap, allocs, current,
                  trials, stderr, exitCode >>

\* lines 185-226
PrintLimits ==
  /\ pc = "limits"
  /\ stdout' = stdout \o LimitLines
  /\ exitCode' = 0
  /\ pc' = "done"
  /\ UNCHANGED << args, format, tryMajorMax, tryMinorMax, tryMajorMin, tryMinorMin,
                  tryMajor, tryMinor, ok, surface, context, heap, allocs, current,
                  extensions, trials, stderr >>

Next ==
  \/ ParseOptions
  \/ \E a \in DriverAnswers : Allocate(a)
  \/ Judge
  \/ \E mc \in BOOLEAN : PostNegotiation(mc)
  \/ PrintGeneral
  \/ \E exts \in ExtSets : PrintExtensions(exts)
  \/ PrintLimits

Spec == Init /\ [][Next]_vars

\* the runs with any --version value or none, the other options not given
InitNegotiation ==
  /\ Init
  /\ ~args.typeSet /\ ~args.profileSet /\ ~args.extensions

\* main is one sequential thread and every library call returns: a step
\* that can be taken is taken
FairSpec == InitNegotiation /\ [][Next]_vars /\ WF_vars(Next)

(***************************************************************************)
(* Vocabulary of the properties                                            *)
(***************************************************************************)
\* lexicographic order on <<major, minor>>
VersionLT(v, w) == v[1] < w[1] \/ (v[1] = w[1] /\ v[2] < w[2])

VersionGE(v, w) == ~VersionLT(v, w)

\* 4.9, 4.8, ..., 4.0, 3.9, ..., 3.2
DefaultOrder ==
  [i \in 1..18 |-> IF i <= 10 THEN <<4, 10 - i>> ELSE <<3, 20 - i>>]

\* the option values that are well formed, spelled out
WellFormedTypes ==
  { <<"o", "p", "e", "n", "g", "l">>, <<"O", "p", "e", "n", "G", "L", "E", "S">> }

WellFormedProfiles ==
  { <<"c", "o", "r", "e">>, <<"C", "O", "M", "P", "A", "T">>,
    <<"c", "o", "m", "p", "a", "t", "i", "b", "i", "l", "i", "t", "y">> }

WellFormedVersions ==
  { <<"4", ".", "6">>, <<"3", ".", "0">>,
    <<"2", "1", "4", "7", "4", "8", "3", "6", "4", "7", ".", "1">>,
    <<"4", "2", "9", "4", "9", "6", "7", "2", "9", "5", ".", "0">>,
    <<"3", ".", "2", "1", "4", "7", "4", "8", "3", "6", "4", "8">> }

TypeMalformed == args.typeSet /\ args.type \notin WellFormedTypes

ProfileMalformed == args.profileSet /\ args.profile \notin WellFormedProfiles

VersionMalformed == args.versionSet /\ args.version \notin WellFormedVersions

\* the version option was given and is well formed
Pinned == args.versionSet /\ args.version \in WellFormedVersions

\* a run with a well-formed version option that gets to the negotiation
PinnedRun == Pinned /\ ~TypeMalformed /\ ~ProfileMalformed

\* MAJOR and MINOR of a well-formed version option, as unsigned values
PinnedMajor == ToUInt(Split(args.version)[1])

PinnedMinor == ToUInt(Split(args.version)[2])

\* an int equals / is below an unsigned 32-bit value
IntEqUInt(i, u) == i >= 0 /\ i \div Half = u.hi /\ i % Half = u.lo

IntLtUInt(i, u) ==
  i < 0 \/ i \div Half < u.hi \/ (i \div Half = u.hi /\ i % Half < u.lo)

Reporting == pc \in {"general", "extensions", "limits"} \/ (pc = "done" /\ exitCode = 0)

\* the trial version
Trial == <<tryMajor, tryMinor>>

\* the version of the context object that context points to
ContextVersion == <<Ctx(heap, context).major, Ctx(heap, context).minor>>

(***************************************************************************)
(* C1: in a run without --version the versions requested form a prefix of  *)
(* 4.9, 4.8, ..., 4.0, 3.9, ..., 3.2, whatever the driver answers, and a    *)
(* further trial is requested only after a trial that did not yield a       *)
(* context of at least the trial version.                                   *)
(***************************************************************************)
C1_PrefixOfDefaultOrder ==
  ~args.versionSet =>
    /\ Len(trials) <= 18
    /\ \A i \in 1..Len(trials) : trials[i] = DefaultOrder[i]

C1_StopsAtFirstSuccess ==
  (~args.versionSet /\ pc = "judge" /\ pc' = "loop") =>
     \/ ~Ctx(heap, context).created
     \/ VersionLT(ContextVersion, trials[Len(trials)])

C1_DefaultTrialOrder == [](C1_PrefixOfDefaultOrder) /\ [][C1_StopsAtFirstSuccess]_vars

\* the default range is exhausted: all 18 versions were tried, none accepted
C1_Witness ==
  ~args.versionSet /\ pc = "negotiated" /\ ~ok /\ Len(trials) = 18
    /\ trials[11] = <<3, 9>> /\ trials[18] = <<3, 2>>

\* the context is below the version given with --version
ContextBelowPinned ==
  LET c == Ctx(heap, context)
  IN  \/ IntLtUInt(c.major, PinnedMajor)
      \/ (IntEqUInt(c.major, PinnedMajor) /\ IntLtUInt(c.minor, PinnedMinor))

(***************************************************************************)
(* C2: with a well-formed --version MAJOR.MINOR exactly one context         *)
(* creation attempt is made, and when the context is not created or is      *)
(* created with a version lower than MAJOR.MINOR, negotiation fails with    *)
(* 'cannot create context'.                                                 *)
(***************************************************************************)
C2_PinnedSingleAttempt ==
  PinnedRun =>
    /\ Len(trials) <= 1
    /\ (pc \notin {"options", "loop"} => Len(trials) = 1)
    /\ (pc = "negotiated" /\ (~Ctx(heap, context).created \/ ContextBelowPinned)
          => ~ok)
    /\ (pc \notin {"options", "loop", "judge", "negotiated"}
          /\ (~Ctx(heap, context).created \/ ContextBelowPinned)
          => pc = "done" /\ exitCode = 1 /\ stderr = <<"cannot create context">>)

(***************************************************************************)
(* C3: for every --version whose components the unsigned 32-bit parse       *)
(* accepts, tryMajorMax = tryMajorMin = MAJOR and tryMinorMax = tryMinorMin *)
(* = MINOR after option resolution, and MAJOR.MINOR is the version          *)
(* requested from the driver.                                               *)
(***************************************************************************)
C3_RangeIsPinnedVersion ==
  (PinnedRun /\ pc # "options") =>
    /\ IntEqUInt(tryMajorMax, PinnedMajor) /\ tryMajorMin = tryMajorMax
    /\ IntEqUInt(tryMinorMax, PinnedMinor) /\ tryMinorMin = tryMinorMax
    /\ (trials # <<>> =>
          /\ IntEqUInt(trials[1][1], PinnedMajor)
          /\ IntEqUInt(trials[1][2], PinnedMinor))

(***************************************************************************)
(* C4: in the report phase the context was created, its version is at       *)
(* least the trial version at which the loop stopped, and that trial        *)
(* version is at least the floor tryMajorMin.tryMinorMin.                   *)
(***************************************************************************)
C4_ReportedContextAtLeastTrial ==
  Reporting =>
    /\ \E c \in heap.contexts : c.id = context /\ c.trial = Len(trials)
    /\ Ctx(heap, context).created
    /\ trials[Len(trials)] = Trial
    /\ VersionGE(ContextVersion, Trial)
    /\ VersionGE(Trial, <<tryMajorMin, tryMinorMin>>)

\* a context above the trial version is reported after a step down
C4_Witness ==
  pc = "general" /\ Len(trials) > 1 /\ VersionLT(Trial, ContextVersion)

(***************************************************************************)
(* C5: a malformed --type, --profile or --version value ends the run with  *)
(* exit code 1 and exactly the one matching diagnostic on stderr, nothing   *)
(* on stdout and no surface or context ever created.                        *)
(***************************************************************************)
C5_MalformedOptionFailsFast ==
  ((TypeMalformed \/ ProfileMalformed \/ VersionMalformed) /\ pc # "options") =>
    /\ pc = "done" /\ exitCode = 1
    /\ stderr = << IF TypeMalformed THEN "invalid type"
                   ELSE IF ProfileMalformed THEN "invalid profile"
                   ELSE "invalid version" >>
    /\ stdout = <<>>
    /\ allocs = 0 /\ trials = <<>>
    /\ heap.surfaces = {} /\ heap.contexts = {}

\* --version 4 with the other options well formed
C5_Witness ==
  /\ pc = "done" /\ args.versionSet /\ args.version = <<"4">>
  /\ ~TypeMalformed /\ ~ProfileMalformed
  /\ stderr = <<"invalid version">>

\* stdout holds the whole report
FullReport ==
  LET n == Len(stdout)
      m == Len(LimitLines)
  IN  /\ n >= 5 + m
      /\ stdout[1].kind = "Context"
      /\ \A i \in 1..4 : stdout[1 + i].kind = StringLines[i].kind
      /\ \A i \in 1..m : stdout[n - m + i] = LimitLines[i]
      /\ IF args.extensions
         THEN /\ n >= 6 + m
              /\ stdout[6].kind = "Extensions:"
              /\ \A i \in 7..(n - m) : stdout[i].kind = "extension"
         ELSE n = 5 + m

\* the last trial gave a context of at least the trial version
LastTrialAcceptable ==
  /\ allocs > 0
  /\ Ctx(heap, context).created
  /\ VersionGE(ContextVersion, Trial)

C7_ProfileSuffixIffDesktop32 ==
  Len(stdout) > 0 =>
    LET c == Ctx(heap, context)
        l == stdout[1]
    IN  /\ l.suffix \in {"", "core profile", "compatibility profile"}
        /\ (l.suffix # "" <=> (~c.isES /\ VersionGE(<<c.major, c.minor>>, <<3, 2>>)))
        /\ (l.api = "OpenGLES" <=> c.isES)

\* an OpenGLES context of version 3.2 or more is reported without suffix
C7_Witness ==
  /\ Len(stdout) > 0 /\ Ctx(heap, context).isES
  /\ VersionGE(ContextVersion, <<3, 2>>)
  /\ stdout[1].suffix = ""

\* lexicographic order on byte strings
LexLess(x, y) ==
  \E k \in 1..Len(y) :
    /\ k <= Len(x) + 1
    /\ \A i \in 1..(k - 1) : x[i] = y[i]
    /\ (k = Len(x) + 1 \/ x[k] < y[k])

ExtensionLineIdx == { i \in 1..Len(stdout) : stdout[i].kind = "extension" }

(***************************************************************************)
(* C8: with the extensions flag the printed list is exactly the set of      *)
(* non-empty extension names of the context, each once, in ascending        *)
(* lexicographic order; without the flag there is no extension section.     *)
(***************************************************************************)
C8_ExtensionListSorted ==
  (pc = "limits" \/ (pc = "done" /\ exitCode = 0)) =>
    IF args.extensions
    THEN LET k == Cardinality({ e \in extensions : e # <<>> })
         IN  /\ stdout[6].kind = "Extensions:"
             /\ ExtensionLineIdx = 7..(6 + k)
             /\ { stdout[i].name : i \in ExtensionLineIdx }
                  = { e \in extensions : e # <<>> }
             /\ \A i, j \in ExtensionLineIdx :
                  i < j => LexLess(stdout[i].name, stdout[j].name)
    ELSE \A i \in 1..Len(stdout) : stdout[i].kind \notin {"Extensions:", "extension"}

\* two names were printed, one a proper prefix of the other
C8_Witness ==
  /\ pc = "done" /\ args.extensions
  /\ extensions = { <<65>>, <<65, 65>> }
  /\ Cardinality(ExtensionLineIdx) = 2

(***************************************************************************)
(* C9: when negotiation ends in failure, the surface and context allocated  *)
(* by the last trial are released before the process exits.                 *)
(***************************************************************************)
C9_LastPairReleased ==
  (pc = "done" /\ stderr = <<"cannot create context">>) =>
    heap.surfaces = {} /\ heap.contexts = {}

(***************************************************************************)
(* C10: at every point at most one surface and one context are live, a      *)
(* retry starts with the failed pair released, and the report phase uses    *)
(* the pair created by the successful (last) trial.                         *)
(***************************************************************************)
C10_OnePairLive ==
  /\ Cardinality(heap.surfaces) <= 1
  /\ Cardinality(heap.contexts) <= 1
  /\ (pc = "loop" =>
        heap.surfaces = {} /\ heap.contexts = {} /\ surface = 0 /\ context = 0)
  /\ (Reporting =>
        /\ heap.surfaces = {surface}
        /\ current = context
        /\ \E c \in heap.contexts :
             /\ heap.contexts = {c}
             /\ c.id = context
             /\ c.trial = Len(trials)
             /\ c.created
             /\ VersionGE(<<c.major, c.minor>>, trials[Len(trials)]))

\* the report phase after at least one retry
C10_Witness ==
  pc = "general" /\ Len(trials) >= 3 /\ allocs = 2 * Len(trials)

\* a pinned run makes one context creation attempt and none after it
PinnedOneAttempt ==
  PinnedRun => Len(trials) <= 1 /\ (pc \notin {"options", "loop"} => Len(trials) = 1)

(***************************************************************************)
(* C11: whatever the driver answers, each retry strictly lowers the trial   *)
(* version and keeps it at or above the floor, a run without --version      *)
(* makes at most 18 context creation attempts, and every run reaches the    *)
(* report phase or a failure exit.                                          *)
(***************************************************************************)
C11_RetryLowersTrial ==
  (pc = "judge" /\ pc' = "loop") =>
    /\ VersionLT(<<tryMajor', tryMinor'>>, Trial)
    /\ VersionGE(<<tryMajor', tryMinor'>>, <<tryMajorMin, tryMinorMin>>)

C11_AttemptsBounded ==
  /\ allocs = 2 * Len(trials)
  /\ (~args.versionSet => Len(trials) <= 18)

C11_NegotiationTerminates ==
  /\ [][C11_RetryLowersTrial]_vars
  /\ [](C11_AttemptsBounded)
  /\ <>(Reporting \/ pc = "done")

\* the report is completed on the 18th attempt of a default run
C11_Witness ==
  ~args.versionSet /\ Len(trials) = 18 /\ pc = "done" /\ exitCode = 0

====
